---- MODULE Spec2Model ----
(***************************************************************************)
(* A model of galaxy_admin.py: the command dispatcher (argument_parser,    *)
(* COMMANDS, main) and the three report generators print_user_emails,      *)
(* print_usage_report and print_job_runtimes.                              *)
(*                                                                         *)
(* One behaviour is one run of the program.  argv is fixed in the initial  *)
(* state; everything the Galaxy server answers, and the current date, is   *)
(* chosen when the code asks for it.  Python strings that the code parses  *)
(* (the extra arguments, a metric's raw_value) are sequences of one        *)
(* character strings; strings that are only compared are TLA+ strings.     *)
(* An optional value (dict.get returning None) is <<>> for None and <<v>>  *)
(* for the value v.  A float is the exact rational [n |-> _, d |-> _].     *)
(***************************************************************************)
EXTENDS Integers, Sequences, FiniteSets

VARIABLES
    argv,          \* [command, args]: the command line after the options
    pc,            \* the statement the run is at
    exit,          \* "running", "ok", or the exception that ended the run
    galaxy,        \* number of GalaxyInstance objects constructed
    called,        \* the calls main made through COMMANDS: <<[fn, args]>>
    net,           \* the requests sent to the Galaxy API, with their outcome
    out,           \* the lines printed to standard output
    current_date,  \* local current_date (a proleptic Gregorian ordinal)
    days_ago,      \* print_job_runtimes' days_ago after int()
    users,         \* print_user_emails' user_info
    jobs,          \* local jobs (the last job list fetched)
    pos,           \* 1-based index of the next loop iteration
    runtimes       \* the defaultdict, in insertion order: <<[tool_id, values]>>

vars == <<argv, pc, exit, galaxy, called, net, out, current_date, days_ago,
          users, jobs, pos, runtimes>>

\* ------------------------------------------------------------------ bounds

\* Extra positional strings on the command line.
MaxArgs == 2
\* Users in the answer of get_users.
MaxUsers == 3
\* Jobs in one answer of get_jobs to the usage report.
MaxUsageJobs == 2
\* Jobs in the answer of get_jobs to the runtime report.
MaxRuntimeJobs == 3

\* ----------------------------------------------------------------- helpers

SeqsUpTo(S, n) == UNION {[1..k -> S] : k \in 0..n}

None == <<>>
Some(v) == <<v>>

\* ----------------------------------------------------------- int(days_ago)

Digits == <<"0", "1", "2", "3", "4", "5", "6", "7", "8", "9">>
DigitSet == {Digits[i] : i \in 1..10}
DigitValue(c) == (CHOOSE i \in 1..10 : Digits[i] = c) - 1
Whitespace == {" ", "\t", "\n"}

RECURSIVE LStrip(_)
LStrip(s) == IF s /= <<>> /\ s[1] \in Whitespace THEN LStrip(Tail(s)) ELSE s

RECURSIVE RStrip(_)
RStrip(s) ==
    IF s /= <<>> /\ s[Len(s)] \in Whitespace
       THEN RStrip(SubSeq(s, 1, Len(s) - 1))
       ELSE s

\* The value of a run of decimal digits in which "_" separators are skipped.
RECURSIVE DecimalValue(_, _)
DecimalValue(s, acc) ==
    IF s = <<>> THEN acc
    ELSE IF s[1] = "_" THEN DecimalValue(Tail(s), acc)
    ELSE DecimalValue(Tail(s), 10 * acc + DigitValue(s[1]))

\* A parser that skips what is not a digit instead of failing.
ParseInt_Lenient(s) ==
    Some(DecimalValue(SelectSeq(s, LAMBDA c : c \in DigitSet), 0))

\* Python's int(str): surrounding whitespace is dropped, one sign is allowed,
\* then decimal digits with single underscores between digits.  None stands
\* for ValueError.
ParseInt(s) ==
    LET t      == RStrip(LStrip(s))
        signed == t /= <<>> /\ t[1] \in {"+", "-"}
        body   == IF signed THEN Tail(t) ELSE t
        wellformed ==
            /\ body /= <<>>
            /\ \A i \in 1..Len(body) : body[i] \in DigitSet \cup {"_"}
            /\ body[1] /= "_"
            /\ body[Len(body)] /= "_"
            /\ \A i \in 1..(Len(body) - 1) : ~(body[i] = "_" /\ body[i + 1] = "_")
        magnitude == DecimalValue(body, 0)
    IN  IF ~wellformed THEN None
        ELSE IF signed /\ t[1] = "-" THEN Some(0 - magnitude)
        ELSE Some(magnitude)

\* --------------------------------------------- dates (datetime.date, stdlib)

\* Days before the first of each month of a common year.
DAYS_BEFORE_MONTH == <<0, 31, 59, 90, 120, 151, 181, 212, 243, 273, 304, 334>>

\* The month and day of the n-th day (from 0) of a year.
MonthAndDay(year, n, leapyear) ==
    LET guess == (n + 50) \div 32
        extra(m) == IF m > 2 /\ leapyear THEN 1 ELSE 0
        month == IF DAYS_BEFORE_MONTH[guess] + extra(guess) > n
                    THEN guess - 1 ELSE guess
    IN  <<year, month, n - (DAYS_BEFORE_MONTH[month] + extra(month)) + 1>>

\* date.fromordinal: ordinal 1 is 0001-01-01; 400 years are 146097 days, a
\* century 36524, four years 1461.
FromOrdinal(ordinal) ==
    LET n0   == ordinal - 1
        n400 == n0 \div 146097
        r400 == n0 % 146097
        n100 == r400 \div 36524
        r100 == r400 % 36524
        n4   == r100 \div 1461
        r4   == r100 % 1461
        n1   == r4 \div 365
        r1   == r4 % 365
        year == n400 * 400 + n100 * 100 + n4 * 4 + n1 + 1
    IN  IF n1 = 4 \/ n100 = 4
           THEN <<year - 1, 12, 31>>
           ELSE MonthAndDay(year, r1, n1 = 3 /\ (n4 /= 24 \/ n100 = 3))

\* current_date - timedelta(days=days): date arithmetic is on ordinals.
MinusDays(date, days) == date - days

\* time_point.isoformat(): the year, month and day of "YYYY-MM-DD".
IsoFormat(date) == FromOrdinal(date)

\* ------------------------------------------- floats and the statistics used

RECURSIVE GCD(_, _)
GCD(a, b) == IF b = 0 THEN a ELSE GCD(b, a % b)

\* The rational n/d in lowest terms (d > 0).
Rat(n, d) ==
    LET g == GCD(IF n < 0 THEN 0 - n ELSE n, d)
    IN  [n |-> n \div g, d |-> d \div g]

RLeq(a, b) == a.n * b.d <= b.n * a.d
RAdd(a, b) == Rat(a.n * b.d + b.n * a.d, a.d * b.d)
RDivInt(a, k) == Rat(a.n, a.d * k)

RECURSIVE Pow10(_)
Pow10(k) == IF k = 0 THEN 1 ELSE 10 * Pow10(k - 1)

\* float(raw_value) for a decimal numeral "ddd" or "ddd.ddd".
ParseFloat(s) ==
    LET dot == IF \E i \in 1..Len(s) : s[i] = "."
                  THEN CHOOSE i \in 1..Len(s) : s[i] = "."
                  ELSE Len(s) + 1
        whole == SubSeq(s, 1, dot - 1)
        frac  == SubSeq(s, dot + 1, Len(s))
    IN  Rat(DecimalValue(whole \o frac, 0), Pow10(Len(frac)))

\* round(x) of a float: to the nearest integer, a tie to the even one.
Round(x) ==
    LET q == x.n \div x.d
        r == x.n % x.d
    IN  IF 2 * r < x.d THEN q
        ELSE IF 2 * r > x.d THEN q + 1
        ELSE IF q % 2 = 0 THEN q ELSE q + 1

RECURSIVE MaxOf(_)
MaxOf(values) ==
    IF Len(values) = 1 THEN values[1]
    ELSE LET m == MaxOf(Tail(values))
         IN  IF RLeq(m, values[1]) THEN values[1] ELSE m

RECURSIVE MinOf(_)
MinOf(values) ==
    IF Len(values) = 1 THEN values[1]
    ELSE LET m == MinOf(Tail(values))
         IN  IF RLeq(values[1], m) THEN values[1] ELSE m

RECURSIVE Insert(_, _)
Insert(x, sorted) ==
    IF sorted = <<>> THEN <<x>>
    ELSE IF RLeq(x, sorted[1]) THEN <<x>> \o sorted
    ELSE <<sorted[1]>> \o Insert(x, Tail(sorted))

RECURSIVE Sorted(_)
Sorted(values) ==
    IF values = <<>> THEN <<>> ELSE Insert(values[1], Sorted(Tail(values)))

\* statistics.median: the middle of the sorted data, or the mean of the two
\* middle values.
Median(values) ==
    LET data == Sorted(values)
        n    == Len(data)
        i    == n \div 2
    IN  IF n % 2 = 1 THEN data[i + 1]
        ELSE RDivInt(RAdd(data[i], data[i + 1]), 2)

RECURSIVE Sum(_)
Sum(values) ==
    IF values = <<>> THEN Rat(0, 1) ELSE RAdd(values[1], Sum(Tail(values)))

\* statistics.mean.
Mean(values) == RDivInt(Sum(values), Len(values))

\* ------------------------------------------------------------------ inputs

\* Extra positional strings a user may type.
ArgStrings ==
    { <<"0">>, <<"a", "b", "c">>, <<"1", ".", "5">> }

\* Command names a user may type: the registered ones and some others.
CommandStrings ==
    { "user_emails", "usage_report", "job_runtimes",
      "user-emails", "usage-report", "job-runtimes", "bogus" }

\* datetime.now().date() as an ordinal: 2024-03-01 and 2021-01-01.
Today == { 738946, 737791 }

Emails == { "a@lumc.nl", "b@lumc.nl" }

\* What galaxy.users.get_users() may return.
UserRecords == [email : {None} \cup {Some(e) : e \in Emails}]
UserLists == SeqsUpTo(UserRecords, MaxUsers)

\* A job record as galaxy.jobs.get_jobs() returns it; id is set by JobList.
Job(state, tool_id, user_email) ==
    [id |-> 0, state |-> state, tool_id |-> tool_id, user_email |-> user_email]

\* The jobs of a usage report: who submitted them is what varies (nobody, or
\* one and the same user).
UsageJobRecords == {Job("ok", "t1", None), Job("ok", "t1", Some("a@lumc.nl"))}

\* The jobs of a runtime report: state and tool vary; without user_details
\* the records carry no user_email.
RuntimeJobRecords ==
    { Job("ok", "t1", None), Job("ok", "t2", None),
      Job("error", "t1", None), Job("running", "t2", None) }

\* A job list: the records in server order, the i-th with id i.
JobList(records) == [i \in 1..Len(records) |-> [records[i] EXCEPT !.id = i]]

UsageJobLists == {JobList(r) : r \in SeqsUpTo(UsageJobRecords, MaxUsageJobs)}
RuntimeJobLists == {JobList(r) : r \in SeqsUpTo(RuntimeJobRecords, MaxRuntimeJobs)}

Metric(name, raw_value) == [name |-> name, raw_value |-> raw_value]
RuntimeSeconds(raw_value) == Metric("runtime_seconds", raw_value)
GalaxySlots == Metric("galaxy_slots", <<"1", ".", "0">>)

\* What details["job_metrics"] may hold for one job.
MetricLists ==
    { <<GalaxySlots>>,
      <<RuntimeSeconds(<<"1", "0", ".", "0">>)>>,
      <<RuntimeSeconds(<<"1", "5">>)>>,
      <<RuntimeSeconds(<<"1", "2", ".", "5">>)>>,
      <<RuntimeSeconds(<<"3", "0", ".", "0", "0", "0", "0", "0", "0", "0">>)>>,
      <<RuntimeSeconds(<<"1", "0", ".", "0">>), GalaxySlots,
        RuntimeSeconds(<<"2", "0">>)>> }

\* ------------------------------------------------------------ the dispatcher

\* A dispatch table keyed by hyphenated names.
COMMANDS_Hyphenated ==
    [c \in {"user-emails", "usage-report", "job-runtimes"} |->
        CASE c = "user-emails"  -> "print_user_emails"
          [] c = "usage-report" -> "print_usage_report"
          [] c = "job-runtimes" -> "print_job_runtimes"]

\* COMMANDS (line 84): command name -> report generator.
COMMANDS ==
    [c \in {"user_emails", "usage_report", "job_runtimes"} |->
        CASE c = "user_emails"  -> "print_user_emails"
          [] c = "usage_report" -> "print_usage_report"
          [] c = "job_runtimes" -> "print_job_runtimes"]

AVAILABLE_COMMANDS == DOMAIN COMMANDS

\* The number of positional parameters after `galaxy` each generator's
\* signature takes (lines 35, 43, 55).
ExtraParameters(fn) ==
    CASE fn = "print_user_emails"  -> 0
      [] fn = "print_usage_report" -> 0
      [] fn = "print_job_runtimes" -> 1

\* The first statement of each generator.
Entry(fn) ==
    CASE fn = "print_user_emails"  -> "user_emails"
      [] fn = "print_usage_report" -> "usage_report"
      [] fn = "print_job_runtimes" -> "job_runtimes"

\* A request to the API and how it ended.
Request(op, min_date, user_details, id, status, job_metrics) ==
    [op |-> op, min_date |-> min_date, user_details |-> user_details,
     id |-> id, status |-> status, job_metrics |-> job_metrics]

\* A printed line: what it is, its text field (None when it has none) and
\* its numeric fields.
Line(kind, text, nums) == [kind |-> kind, text |-> text, nums |-> nums]

\* An uncaught exception (or argparse's SystemExit) ends the run.
Raise(e) == /\ exit' = e
            /\ pc' = "done"

\* A report generator returns to main, which returns.
Return == /\ exit' = "ok"
          /\ pc' = "done"

Init ==
    /\ argv \in [command : CommandStrings, args : SeqsUpTo(ArgStrings, MaxArgs)]
    /\ pc = "parse_args"
    /\ exit = "running"
    /\ galaxy = 0
    /\ called = <<>>
    /\ net = <<>>
    /\ out = <<>>
    /\ current_date = 0
    /\ days_ago = 0
    /\ users = <<>>
    /\ jobs = <<>>
    /\ pos = 1
    /\ runtimes = <<>>

\* A parser without `choices`: every command name goes on to main's body.
ParseArgs_NoChoices ==
    /\ pc = "parse_args"
    /\ pc' = "construct"
    /\ UNCHANGED <<argv, exit, galaxy, called, net, out, current_date,
                   days_ago, users, jobs, pos, runtimes>>

\* main, line 115: argparse rejects a command outside `choices` (exit 2).
ParseArgs ==
    /\ pc = "parse_args"
    /\ IF argv.command \in AVAILABLE_COMMANDS
          THEN pc' = "construct" /\ exit' = exit
          ELSE Raise("usage_error")
    /\ UNCHANGED <<argv, galaxy, called, net, out, current_date, days_ago,
                   users, jobs, pos, runtimes>>

\* main, lines 116-122: the API client is built.
Construct ==
    /\ pc = "construct"
    /\ galaxy' = galaxy + 1
    /\ pc' = "dispatch"
    /\ UNCHANGED <<argv, exit, called, net, out, current_date, days_ago,
                   users, jobs, pos, runtimes>>

\* main, line 123: COMMANDS[args.command](galaxy, *args.args).  Python binds
\* the arguments before the body runs: too many raise TypeError.
Dispatch ==
    /\ pc = "dispatch"
    /\ LET fn == COMMANDS[argv.command] IN
        /\ called' = Append(called, [fn |-> fn, args |-> argv.args])
        /\ IF Len(argv.args) > ExtraParameters(fn)
              THEN Raise("TypeError")
              ELSE pc' = Entry(fn) /\ exit' = exit
    /\ UNCHANGED <<argv, galaxy, net, out, current_date, days_ago,
                   users, jobs, pos, runtimes>>

\* -------------------------------------------------------- print_user_emails

\* Line 36: galaxy.users.get_users(); a connection error is not caught.
GetUsers ==
    /\ pc = "user_emails"
    /\ \/ \E u \in UserLists :
            /\ users' = u
            /\ net' = Append(net, Request("get_users", <<>>, FALSE, 0, "ok", <<>>))
            /\ pc' = "user_emails_loop"
            /\ exit' = exit
       \/ /\ net' = Append(net, Request("get_users", <<>>, FALSE, 0,
                                         "ConnectionError", <<>>))
          /\ Raise("ConnectionError")
          /\ users' = users
    /\ pos' = 1
    /\ UNCHANGED <<argv, galaxy, called, out, current_date, days_ago,
                   jobs, runtimes>>

\* Printing whatever user.get("email") returned.
ShouldPrint_Always(email) == TRUE

\* Line 39: email is not None.
ShouldPrint(email) == email /= None

\* Lines 37-40: one iteration of the loop over user_info.
PrintUserEmail ==
    /\ pc = "user_emails_loop"
    /\ pos <= Len(users)
    /\ LET email == users[pos].email IN
          out' = IF ShouldPrint(email)
                    THEN Append(out, Line("email", email, <<>>))
                    ELSE out
    /\ pos' = pos + 1
    /\ UNCHANGED <<argv, pc, exit, galaxy, called, net, current_date, days_ago,
                   users, jobs, runtimes>>

\* Line 37: the loop is exhausted and the function returns.
UserEmailsReturn ==
    /\ pc = "user_emails_loop"
    /\ pos > Len(users)
    /\ Return
    /\ UNCHANGED <<argv, galaxy, called, net, out, current_date, days_ago,
                   users, jobs, pos, runtimes>>

\* ------------------------------------------------------- print_usage_report

\* A window sequence with one window mistyped.
UsageWindows_Mistyped == <<1, 7, 30, 60, 180, 365>>

\* Line 46.
UsageWindows == <<1, 7, 30, 90, 180, 365>>

\* Line 51: {job.get("user_email") for job in jobs}.
unique_users(job_list) == {job_list[i].user_email : i \in 1..Len(job_list)}

\* Lines 44-46: the date is read once and the header is printed.
UsageHeader ==
    /\ pc = "usage_report"
    /\ current_date' \in Today
    /\ out' = Append(out, Line("usage_header", None, <<>>))
    /\ pos' = 1
    /\ pc' = "usage_report_loop"
    /\ UNCHANGED <<argv, exit, galaxy, called, net, days_ago, users, jobs,
                   runtimes>>

\* Lines 47-52: one iteration of the loop over days_ago.  A connection error
\* of get_jobs is not caught.
UsageWindow ==
    /\ pc = "usage_report_loop"
    /\ pos <= Len(UsageWindows)
    /\ LET days       == UsageWindows[pos]
           time_point == MinusDays(current_date, days)
           request(status) ==
               Request("get_jobs", IsoFormat(time_point), TRUE, 0, status, <<>>)
       IN  \/ \E j \in UsageJobLists :
                /\ net' = Append(net, request("ok"))
                /\ jobs' = j
                /\ out' = Append(out, Line("usage_row", None,
                                 <<days, Len(j), Cardinality(unique_users(j))>>))
                /\ pos' = pos + 1
                /\ UNCHANGED <<pc, exit>>
           \/ /\ net' = Append(net, request("ConnectionError"))
              /\ Raise("ConnectionError")
              /\ UNCHANGED <<jobs, out, pos>>
    /\ UNCHANGED <<argv, galaxy, called, current_date, days_ago, users,
                   runtimes>>

\* Line 47: the loop is exhausted and the function returns.
UsageReturn ==
    /\ pc = "usage_report_loop"
    /\ pos > Len(UsageWindows)
    /\ Return
    /\ UNCHANGED <<argv, galaxy, called, net, out, current_date, days_ago,
                   users, jobs, pos, runtimes>>

\* ------------------------------------------------------- print_job_runtimes

\* Line 55: days_ago: str = "30".
DefaultDaysAgo == <<"3", "0">>

\* The days_ago parameter as the call binds it.
DaysAgoParameter == IF argv.args = <<>> THEN DefaultDaysAgo ELSE argv.args[1]

\* Line 56: days_ago = int(days_ago); a ValueError is not caught.
ParseDaysAgo ==
    /\ pc = "job_runtimes"
    /\ LET parsed == ParseInt(DaysAgoParameter) IN
          IF parsed = None
             THEN Raise("ValueError") /\ days_ago' = days_ago
             ELSE /\ days_ago' = parsed[1]
                  /\ pc' = "job_runtimes_get_jobs"
                  /\ exit' = exit
    /\ UNCHANGED <<argv, galaxy, called, net, out, current_date, users, jobs,
                   pos, runtimes>>

\* Lines 57-61: the job list is fetched and the summary line printed.  A
\* connection error of get_jobs is not caught.
GetJobs ==
    /\ pc = "job_runtimes_get_jobs"
    /\ \E today \in Today :
        LET time_point == MinusDays(today, days_ago)
            request(status) ==
                Request("get_jobs", IsoFormat(time_point), FALSE, 0, status, <<>>)
        IN  /\ current_date' = today
            /\ \/ \E j \in RuntimeJobLists :
                    /\ net' = Append(net, request("ok"))
                    /\ jobs' = j
                    /\ out' = Append(out, Line("jobs_summary", None,
                                               <<days_ago, Len(j)>>))
                    /\ pc' = "job_runtimes_loop"
                    /\ exit' = exit
               \/ /\ net' = Append(net, request("ConnectionError"))
                  /\ Raise("ConnectionError")
                  /\ UNCHANGED <<jobs, out>>
    /\ pos' = 1
    /\ runtimes' = <<>>
    /\ UNCHANGED <<argv, galaxy, called, days_ago, users>>

\* The runtime_seconds values of a metrics collection, in order (lines 69-71).
RECURSIVE RuntimeValues(_)
RuntimeValues(metrics) ==
    IF metrics = <<>> THEN <<>>
    ELSE (IF metrics[1].name = "runtime_seconds"
             THEN <<ParseFloat(metrics[1].raw_value)>>
             ELSE <<>>) \o RuntimeValues(Tail(metrics))

\* A dict that puts a new key first.
Record_Prepend(dict, tool_id, values) ==
    IF values = <<>> THEN dict
    ELSE IF \E k \in 1..Len(dict) : dict[k].tool_id = tool_id
       THEN [k \in 1..Len(dict) |->
                IF dict[k].tool_id = tool_id
                   THEN [dict[k] EXCEPT !.values = @ \o values]
                   ELSE dict[k]]
       ELSE <<[tool_id |-> tool_id, values |-> values]>> \o dict

\* runtimes[tool_id] += values: a new key goes last (dict insertion order);
\* no key is made when there is nothing to append (line 71 is not reached).
Record(dict, tool_id, values) ==
    IF values = <<>> THEN dict
    ELSE IF \E k \in 1..Len(dict) : dict[k].tool_id = tool_id
       THEN [k \in 1..Len(dict) |->
                IF dict[k].tool_id = tool_id
                   THEN [dict[k] EXCEPT !.values = @ \o values]
                   ELSE dict[k]]
       ELSE Append(dict, [tool_id |-> tool_id, values |-> values])

\* Treating every state but "error" as success.
IsOk_NotError(job) == job.state /= "error"

\* Line 63: job.get('state') == 'ok'.
IsOk(job) == job.state = "ok"

\* `continue` in place of `break`: the failed job is skipped.
OnConnectionError_Continue ==
    /\ pos' = pos + 1
    /\ UNCHANGED <<pc, runtimes>>

\* Lines 66-67: except bioblend.ConnectionError: break.
OnConnectionError ==
    /\ pc' = "job_runtimes_print"
    /\ UNCHANGED <<runtimes, pos>>

\* Lines 62-71: one iteration of the loop over jobs.
ProcessJob ==
    /\ pc = "job_runtimes_loop"
    /\ pos <= Len(jobs)
    /\ LET job == jobs[pos]
           request(status, metrics) ==
               Request("show_job", <<>>, FALSE, job.id, status, metrics)
       IN  IF IsOk(job)
              THEN \/ \E metrics \in MetricLists :
                        /\ net' = Append(net, request("ok", metrics))
                        /\ runtimes' = Record(runtimes, job.tool_id,
                                              RuntimeValues(metrics))
                        /\ pos' = pos + 1
                        /\ pc' = pc
                   \/ /\ net' = Append(net, request("ConnectionError", <<>>))
                      /\ OnConnectionError
              ELSE /\ pos' = pos + 1
                   /\ UNCHANGED <<net, runtimes, pc>>
    /\ UNCHANGED <<argv, exit, galaxy, called, out, current_date, days_ago,
                   users, jobs>>

\* Lines 75-81: the row of one tool.
RuntimeRow(entry) ==
    Line("runtime_row", Some(entry.tool_id),
         <<Len(entry.values), Round(MinOf(entry.values)),
           Round(MaxOf(entry.values)), Round(Median(entry.values)),
           Round(Mean(entry.values))>>)

\* Lines 72-81, reached when the loop is exhausted or left: the header and
\* one row per key of runtimes, then the return.
PrintRuntimes ==
    /\ \/ pc = "job_runtimes_loop" /\ pos > Len(jobs)
       \/ pc = "job_runtimes_print"
    /\ out' = Append(out, Line("runtime_header", None, <<>>))
                 \o [k \in 1..Len(runtimes) |-> RuntimeRow(runtimes[k])]
    /\ Return
    /\ UNCHANGED <<argv, galaxy, called, net, current_date, days_ago, users,
                   jobs, pos, runtimes>>

Next ==
    \/ ParseArgs
    \/ Construct
    \/ Dispatch
    \/ GetUsers
    \/ PrintUserEmail
    \/ UserEmailsReturn
    \/ UsageHeader
    \/ UsageWindow
    \/ UsageReturn
    \/ ParseDaysAgo
    \/ GetJobs
    \/ ProcessJob
    \/ PrintRuntimes

Spec == Init /\ [][Next]_vars
\* ================================================================== claims

\* The report generator fn was called with arguments its signature accepts,
\* so its body is what runs (or ran).
Running(fn) ==
    /\ called /= <<>>
    /\ called[1].fn = fn
    /\ exit /= "TypeError"

\* ---------------------------------------------------------------------- C6

EmailPresent(user) == user.email /= None

\* One line per user of `list` whose email is present, in list order.
EmailLines(list) ==
    LET present == SelectSeq(list, EmailPresent)
    IN  [i \in 1..Len(present) |-> Line("email", present[i].email, <<>>)]

\* C6: for every user list the API returns, user-emails prints exactly one
\* line per user whose email is present, holding that email, in the order the
\* users were returned; users without email give no line and no error.  It
\* holds after every iteration for the users seen so far, and at the end for
\* the whole list.
C6_UserEmails ==
    /\ pc = "user_emails_loop" => out = EmailLines(SubSeq(users, 1, pos - 1))
    /\ ( /\ pc = "done"
         /\ Running("print_user_emails")
         /\ net /= <<>>
         /\ net[1].status = "ok" )
       => /\ exit = "ok"
          /\ out = EmailLines(users)

\* C6's case: a list with an absent email between two present ones.
C6_Witness ==
    /\ pc = "done"
    /\ exit = "ok"
    /\ users = << [email |-> Some("b@lumc.nl")], [email |-> None],
                  [email |-> Some("a@lumc.nl")] >>
    /\ out = << Line("email", Some("b@lumc.nl"), <<>>),
                Line("email", Some("a@lumc.nl"), <<>>) >>

\* ---------------------------------------------------------------------- C3

\* C3 as stated: the dispatcher accepts exactly the names user-emails,
\* usage-report and job-runtimes, and dispatches each to its own generator.
C3_HyphenatedNames ==
    pc /= "parse_args" =>
        /\ exit /= "usage_error"
              <=> argv.command \in {"user-emails", "usage-report", "job-runtimes"}
        /\ (called /= <<>> /\ argv.command = "user-emails")
              => called[1].fn = "print_user_emails"
        /\ (called /= <<>> /\ argv.command = "usage-report")
              => called[1].fn = "print_usage_report"
        /\ (called /= <<>> /\ argv.command = "job-runtimes")
              => called[1].fn = "print_job_runtimes"

\* C3, amended: the dispatcher accepts exactly the names user_emails,
\* usage_report and job_runtimes (with underscores); every other name ends in
\* a usage error; each accepted name is dispatched to its own generator, whose
\* statements are the only ones that run.
C3_Commands ==
    pc /= "parse_args" =>
        /\ exit /= "usage_error"
              <=> argv.command \in {"user_emails", "usage_report", "job_runtimes"}
        /\ (called /= <<>> /\ argv.command = "user_emails")
              => called[1].fn = "print_user_emails"
        /\ (called /= <<>> /\ argv.command = "usage_report")
              => called[1].fn = "print_usage_report"
        /\ (called /= <<>> /\ argv.command = "job_runtimes")
              => called[1].fn = "print_job_runtimes"
        /\ pc \in {"user_emails", "user_emails_loop"}
              => argv.command = "user_emails"
        /\ pc \in {"usage_report", "usage_report_loop"}
              => argv.command = "usage_report"
        /\ pc \in {"job_runtimes", "job_runtimes_get_jobs", "job_runtimes_loop",
                   "job_runtimes_print"}
              => argv.command = "job_runtimes"
        /\ \A i \in 1..Len(net) :
              /\ net[i].op = "get_users" => argv.command = "user_emails"
              /\ net[i].op = "show_job" => argv.command = "job_runtimes"
              /\ net[i].op = "get_jobs"
                    => argv.command = (IF net[i].user_details
                                          THEN "usage_report" ELSE "job_runtimes")

\* C3's case: an underscore name was accepted and its generator ran.
C3_Witness ==
    /\ pc = "done"
    /\ exit = "ok"
    /\ argv.command = "usage_report"
    /\ called = << [fn |-> "print_usage_report", args |-> <<>>] >>
    /\ Len(out) = 7

\* ---------------------------------------------------------------------- C4

\* C4 as stated: for any list of extra strings main builds exactly one client
\* and calls the selected generator exactly once with the strings forwarded
\* verbatim; the report then runs, job-runtimes reading the first string as
\* days_ago ("30" when there is none), the other two reading none.
C4_ForwardAndRun ==
    (pc = "done" /\ exit /= "usage_error") =>
        /\ galaxy = 1
        /\ called = << [fn |-> COMMANDS[argv.command], args |-> argv.args] >>
        /\ exit /= "TypeError"
        /\ (argv.command = "job_runtimes" /\ exit = "ok" /\ argv.args = <<>>)
              => days_ago = 30
        /\ ( /\ argv.command = "job_runtimes"
             /\ exit = "ok"
             /\ argv.args /= <<>>
             /\ argv.args[1] = <<"0">> )
              => days_ago = 0

\* ---------------------------------------------------------------------- C9

\* C9: a command name that is not registered (such as "bogus") ends the run
\* with a usage error before the API client is built, before any request is
\* sent and before any report generator is called.
C9_UnregisteredCommand ==
    (argv.command \notin AVAILABLE_COMMANDS /\ pc /= "parse_args") =>
        /\ pc = "done"
        /\ exit = "usage_error"
        /\ galaxy = 0
        /\ called = <<>>
        /\ net = <<>>
        /\ out = <<>>

\* C9's case: "bogus" was given and rejected.
C9_Witness ==
    /\ argv.command = "bogus"
    /\ pc = "done"
    /\ exit = "usage_error"

\* --------------------------------------------------------------------- C10

\* Strings that are no integer numeral.
NotIntegers == { <<"a", "b", "c">>, <<"1", ".", "5">> }

\* C10: in job-runtimes a days_ago that is not integer-convertible raises an
\* uncaught parse error before any request is sent and before anything is
\* printed; nothing else raises it; and days_ago "0" makes the job-list fetch
\* use min_date = today.
C10_DaysAgo ==
    /\ ( /\ Running("print_job_runtimes")
         /\ pc /= "job_runtimes"
         /\ argv.args /= <<>>
         /\ argv.args[1] \in NotIntegers )
       => /\ pc = "done"
          /\ exit = "ValueError"
          /\ net = <<>>
          /\ out = <<>>
    /\ exit = "ValueError"
       => /\ Running("print_job_runtimes")
          /\ argv.args /= <<>>
          /\ argv.args[1] \in NotIntegers
    /\ ( /\ Running("print_job_runtimes")
         /\ argv.args = << <<"0">> >>
         /\ pc /= "job_runtimes" )
       => /\ exit /= "ValueError"
          /\ days_ago = 0
          /\ net /= <<>> =>
                /\ net[1].op = "get_jobs"
                /\ net[1].min_date = IsoFormat(current_date)
                /\ current_date \in Today

\* C10's case: "abc" was given to job-runtimes and the run ended on it.
C10_Witness ==
    /\ argv = [command |-> "job_runtimes", args |-> << <<"a", "b", "c">> >>]
    /\ pc = "done"
    /\ exit = "ValueError"
    /\ galaxy = 1

\* ---------------------------------------------------------------------- C2

\* The distinct emails of the jobs that have one.
DistinctPresentEmails(list) ==
    {list[i].user_email : i \in 1..Len(list)} \ {None}

\* C2 as stated: the row printed for a window holds the number of jobs
\* returned and the number of distinct, non-absent submitter emails among them.
C2_ActiveUsers ==
    (pc = "usage_report_loop" /\ pos > 1) =>
        out[Len(out)].nums =
            << <<1, 7, 30, 90, 180, 365>>[pos - 1], Len(jobs),
               Cardinality(DistinctPresentEmails(jobs)) >>

\* ---------------------------------------------------------------------- C7

\* C7: usage-report prints the header first and then one row per window 1, 7,
\* 30, 90, 180, 365, in that order; the i-th row follows the i-th request,
\* which is a job-list fetch with user details and min_date = today minus the
\* i-th window; when every fetch returns, the rows are exactly 6.
C7_UsageReport ==
    (Running("print_usage_report") /\ pc \in {"usage_report_loop", "done"}) =>
        LET windows == <<1, 7, 30, 90, 180, 365>> IN
        /\ out /= <<>>
        /\ out[1] = Line("usage_header", None, <<>>)
        /\ Len(out) <= 7
        /\ Len(net) <= 6
        /\ \A i \in 2..Len(out) :
              /\ out[i].kind = "usage_row"
              /\ out[i].nums[1] = windows[i - 1]
              /\ i - 1 <= Len(net)
              /\ net[i - 1].status = "ok"
        /\ \A i \in 1..Len(net) :
              /\ net[i].op = "get_jobs"
              /\ net[i].user_details
              /\ net[i].min_date = IsoFormat(current_date - windows[i])
              /\ net[i].status = "ok" => i + 1 <= Len(out)
        /\ (pc = "done" /\ \A i \in 1..Len(net) : net[i].status = "ok")
              => /\ exit = "ok"
                 /\ Len(out) = 7
                 /\ Len(net) = 6

\* C7's case: a full report made on 2024-03-01; the 1-day window starts on
\* the leap day and the 365-day window on 2023-03-02.
C7_Witness ==
    /\ pc = "done"
    /\ exit = "ok"
    /\ Running("print_usage_report")
    /\ Len(out) = 7
    /\ current_date = 738946
    /\ net[1].min_date = <<2024, 2, 29>>
    /\ net[4].min_date = <<2023, 12, 2>>
    /\ net[6].min_date = <<2023, 3, 2>>
    /\ out[7].nums = <<365, 2, 1>>

\* ------------------------------------------------------- C1, C5, C8: helpers

\* The body of print_job_runtimes got its job list.
JobsFetched ==
    /\ Running("print_job_runtimes")
    /\ net /= <<>>
    /\ net[1].status = "ok"

\* The ids of the jobs in state "ok", in job-list order.
OkIds ==
    LET ok == SelectSeq(jobs, LAMBDA j : j.state = "ok")
    IN  [i \in 1..Len(ok) |-> ok[i].id]

\* What the answered detail requests of `requests` recorded: one
\* [tool_id, value] per runtime_seconds metric, in the order received.
RECURSIVE Recorded(_)
Recorded(requests) ==
    IF requests = <<>> THEN <<>>
    ELSE LET r == requests[1]
             m == IF r.op = "show_job" /\ r.status = "ok"
                     THEN SelectSeq(r.job_metrics,
                                    LAMBDA x : x.name = "runtime_seconds")
                     ELSE <<>>
         IN  [i \in 1..Len(m) |->
                 [tool_id |-> jobs[r.id].tool_id,
                  value |-> ParseFloat(m[i].raw_value)]]
             \o Recorded(Tail(requests))

\* The values recorded for one tool, in the order received.
ValuesOf(tool_id, recorded) ==
    LET mine == SelectSeq(recorded, LAMBDA p : p.tool_id = tool_id)
    IN  [i \in 1..Len(mine) |-> mine[i].value]

\* Where a tool was first encountered.
FirstIndex(tool_id, recorded) ==
    CHOOSE i \in 1..Len(recorded) :
        /\ recorded[i].tool_id = tool_id
        /\ \A j \in 1..(i - 1) : recorded[j].tool_id /= tool_id

\* The tools of `recorded`, each once, in first-encounter order.
RECURSIVE ToolsInOrder(_, _)
ToolsInOrder(recorded, seen) ==
    IF recorded = <<>> THEN <<>>
    ELSE IF recorded[1].tool_id \in seen
       THEN ToolsInOrder(Tail(recorded), seen)
       ELSE <<recorded[1].tool_id>>
            \o ToolsInOrder(Tail(recorded), seen \cup {recorded[1].tool_id})

\* The dict the loop must hold after the requests `requests`.
ExpectedRuntimes(requests) ==
    LET recorded == Recorded(requests)
        tools    == ToolsInOrder(recorded, {})
    IN  [k \in 1..Len(tools) |->
            [tool_id |-> tools[k], values |-> ValuesOf(tools[k], recorded)]]

\* ---------------------------------------------------------------------- C5

RECURSIVE TotalLen(_)
TotalLen(dict) ==
    IF dict = <<>> THEN 0 ELSE Len(dict[1].values) + TotalLen(Tail(dict))

RECURSIVE TotalExecutions(_)
TotalExecutions(lines) ==
    IF lines = <<>> THEN 0
    ELSE (IF lines[1].kind = "runtime_row" THEN lines[1].nums[1] ELSE 0)
         + TotalExecutions(Tail(lines))

\* C5: in job-runtimes a job whose state is not exactly "ok" is counted in the
\* summary line's total, is never the subject of a detail fetch, and adds no
\* runtime value, row or execution count: every detail fetch is for an "ok"
\* job, every key of the dict and every row is the tool of an "ok" job whose
\* fetch was answered, and the values (and the executions printed) are as many
\* as the runtime_seconds metrics of the answers.
C5_NonOkJobs ==
    (JobsFetched /\ pc \in {"job_runtimes_loop", "job_runtimes_print", "done"}) =>
        LET recorded == Recorded(net) IN
        /\ out /= <<>>
        /\ out[1] = Line("jobs_summary", None, <<days_ago, Len(jobs)>>)
        /\ \A i \in 2..Len(net) :
              /\ net[i].op = "show_job"
              /\ net[i].id \in 1..Len(jobs)
              /\ jobs[net[i].id].state = "ok"
        /\ \A i \in 1..Len(jobs) :
              jobs[i].state /= "ok" => \A n \in 1..Len(net) : net[n].id /= i
        /\ \A k \in 1..Len(runtimes) :
              \E i \in 1..Len(recorded) : recorded[i].tool_id = runtimes[k].tool_id
        /\ TotalLen(runtimes) = Len(recorded)
        /\ pc = "done" =>
              /\ TotalExecutions(out) = Len(recorded)
              /\ \A r \in 3..Len(out) :
                    \E i \in 1..Len(recorded) :
                        Some(recorded[i].tool_id) = out[r].text

\* C5's case: a report over an "error" job, an "ok" job and a "running" job,
\* with three jobs in the summary and the one "ok" job in the one row.
C5_Witness ==
    /\ pc = "done"
    /\ exit = "ok"
    /\ Len(jobs) = 3
    /\ jobs[1].state = "error"
    /\ jobs[2].state = "ok"
    /\ jobs[3].state = "running"
    /\ out[1].nums[2] = 3
    /\ Len(net) = 2
    /\ Len(out) = 3
    /\ out[3].nums[1] = 1

\* ---------------------------------------------------------------------- C1

\* C1: when the detail fetch for the k-th "ok" job fails with a connection
\* error, the loop stops at once: the failed request is the last one sent (no
\* later job is fetched, no retry), the k-1 requests before it were for the
\* first k-1 "ok" jobs and were answered, no error reaches the caller, and the
\* header and the rows are printed from exactly what those k-1 answers
\* recorded.
C1_ConnectionError ==
    \A i \in 1..Len(net) :
        (net[i].op = "show_job" /\ net[i].status = "ConnectionError") =>
            /\ i = Len(net)
            /\ pc \in {"job_runtimes_print", "done"}
            /\ exit \in {"running", "ok"}
            /\ i - 1 <= Len(OkIds)
            /\ \A n \in 2..i : net[n].op = "show_job" /\ net[n].id = OkIds[n - 1]
            /\ \A n \in 2..(i - 1) : net[n].status = "ok"
            /\ runtimes = ExpectedRuntimes(SubSeq(net, 2, i - 1))
            /\ pc = "done" =>
                  /\ exit = "ok"
                  /\ out = << Line("jobs_summary", None, <<days_ago, Len(jobs)>>),
                              Line("runtime_header", None, <<>>) >>
                           \o [k \in 1..Len(runtimes) |-> RuntimeRow(runtimes[k])]

\* C1's case: three "ok" jobs; the first is answered (15 s), the fetch for the
\* second fails, the third is never asked for, and the report has one row.
C1_Witness ==
    /\ pc = "done"
    /\ exit = "ok"
    /\ Len(jobs) = 3
    /\ \A i \in 1..3 : jobs[i].state = "ok"
    /\ Len(net) = 3
    /\ net[2].status = "ok"
    /\ net[3].status = "ConnectionError"
    /\ net[3].id = 2
    /\ out[3] = Line("runtime_row", Some(jobs[1].tool_id), <<1, 15, 15, 15, 15>>)
    /\ Len(out) = 3

\* ---------------------------------------------------------------------- C8

\* r is x rounded to the nearest whole number, a tie going to the even one.
IsRounded(r, x) ==
    LET diff     == r * x.d - x.n
        distance == IF diff < 0 THEN 0 - diff ELSE diff
    IN  /\ 2 * distance <= x.d
        /\ 2 * distance = x.d => r % 2 = 0

\* values[i] stands at place p when the values are put in ascending order.
AtRank(values, i, p) ==
    /\ Cardinality({j \in 1..Len(values) :
                       ~RLeq(values[i], values[j])}) < p
    /\ p <= Cardinality({j \in 1..Len(values) : RLeq(values[j], values[i])})

\* The sum of two rationals over the denominator 2 * a.d * b.d: their mean.
MeanOfTwo(a, b) == [n |-> a.n * b.d + b.n * a.d, d |-> 2 * a.d * b.d]

RECURSIVE ProductOfDenominators(_)
ProductOfDenominators(values) ==
    IF values = <<>> THEN 1
    ELSE values[1].d * ProductOfDenominators(Tail(values))

RECURSIVE NumeratorSum(_, _)
NumeratorSum(values, d) ==
    IF values = <<>> THEN 0
    ELSE values[1].n * (d \div values[1].d) + NumeratorSum(Tail(values), d)

\* The mean of the values as one fraction.
ArithmeticMean(values) ==
    LET d == ProductOfDenominators(values)
    IN  [n |-> NumeratorSum(values, d), d |-> d * Len(values)]

\* The numeric fields of a row are the statistics of `values`.
IsStatisticsOf(nums, values) ==
    LET n == Len(values) IN
    /\ nums[1] = n
    /\ \E i \in 1..n :
          /\ \A j \in 1..n : RLeq(values[i], values[j])
          /\ IsRounded(nums[2], values[i])
    /\ \E i \in 1..n :
          /\ \A j \in 1..n : RLeq(values[j], values[i])
          /\ IsRounded(nums[3], values[i])
    /\ \E lo, hi \in 1..n :
          /\ AtRank(values, lo, (n + 1) \div 2)
          /\ AtRank(values, hi, n \div 2 + 1)
          /\ IsRounded(nums[4], MeanOfTwo(values[lo], values[hi]))
    /\ IsRounded(nums[5], ArithmeticMean(values))

\* x is the whole number r.
IsExactly(r, x) == r * x.d = x.n

\* The numeric fields of a row are the statistics of `values`, unrounded.
IsExactStatisticsOf(nums, values) ==
    LET n == Len(values) IN
    /\ nums[1] = n
    /\ \E i \in 1..n :
          /\ \A j \in 1..n : RLeq(values[i], values[j])
          /\ IsExactly(nums[2], values[i])
    /\ \E i \in 1..n :
          /\ \A j \in 1..n : RLeq(values[j], values[i])
          /\ IsExactly(nums[3], values[i])
    /\ \E lo, hi \in 1..n :
          /\ AtRank(values, lo, (n + 1) \div 2)
          /\ AtRank(values, hi, n \div 2 + 1)
          /\ IsExactly(nums[4], MeanOfTwo(values[lo], values[hi]))
    /\ IsExactly(nums[5], ArithmeticMean(values))

\* After the header row there is exactly one row per distinct tool for which
\* a runtime_seconds value was recorded from a processed "ok" job, in the
\* order the tools were first encountered, and the row's numbers are in the
\* relation Statistics to the values recorded for its tool (10, 20, 30 give
\* 3, 10, 30, 20, 20).
RowsPerTool(Statistics(_, _)) ==
    (JobsFetched /\ pc = "done") =>
        LET recorded == Recorded(net)
            rows     == SubSeq(out, 3, Len(out))
            ten      == [n |-> 10, d |-> 1]
            twenty   == [n |-> 20, d |-> 1]
            thirty   == [n |-> 30, d |-> 1]
        IN  /\ Len(out) >= 2
            /\ out[2] = Line("runtime_header", None, <<>>)
            /\ \A r \in 1..Len(rows) :
                  /\ rows[r].kind = "runtime_row"
                  /\ rows[r].text /= None
            /\ {rows[r].text[1] : r \in 1..Len(rows)}
                  = {recorded[i].tool_id : i \in 1..Len(recorded)}
            /\ \A r, q \in 1..Len(rows) :
                  r < q => FirstIndex(rows[r].text[1], recorded)
                              < FirstIndex(rows[q].text[1], recorded)
            /\ \A r \in 1..Len(rows) :
                  LET values == ValuesOf(rows[r].text[1], recorded) IN
                  /\ Statistics(rows[r].nums, values)
                  /\ values = <<ten, twenty, thirty>>
                        => rows[r].nums = <<3, 10, 30, 20, 20>>

\* C8 as stated: after the header row job-runtimes prints exactly one row per
\* distinct tool for which a runtime_seconds value was recorded from a
\* processed "ok" job, in first-encounter order; the row holds the number of
\* values recorded for the tool and their minimum, maximum, median and mean.
C8_ExactStatistics == RowsPerTool(IsExactStatisticsOf)

\* C8, amended: the same rows in the same order, the row holding the number of
\* values recorded for the tool and their minimum, maximum, median and mean
\* each rounded to the nearest whole number, a tie going to the even one.  A
\* tool without a recorded value, and an "ok" job without a runtime_seconds
\* metric, give no row.
C8_RuntimeRows == RowsPerTool(IsStatisticsOf)

\* C8's case: tool t2 ran once (15 s) before tool t1 ran three times (10, 20
\* and 30 s); the rows are t2's and then t1's.
C8_Witness ==
    /\ pc = "done"
    /\ exit = "ok"
    /\ Len(out) = 4
    /\ out[3] = Line("runtime_row", Some("t2"), <<1, 15, 15, 15, 15>>)
    /\ out[4] = Line("runtime_row", Some("t1"), <<3, 10, 30, 20, 20>>)

====
